---- MODULE Spec2Model ----
(***************************************************************************)
(* AutoPrep.AI preprocessing core: AutoPreprocessor.fit_transform          *)
(* (pipeline.py), infer_types / column_stats (stats.py), advise and its    *)
(* heuristic fallback (llm_advisor.py) and the fitted transformers         *)
(* (transformers.py).                                                      *)
(*                                                                         *)
(* Data representation.  A table is a sequence of columns; a column is a   *)
(* record [name, dtype, cells].  dtype is the numpy kind of the pandas     *)
(* column: "f" (integer/float), "O" (object, i.e. strings) or "M"          *)
(* (datetime64).  A cell is <<>> when missing and <<v>> otherwise.  A      *)
(* processed value is an exact rational <<numerator, denominator>>; the    *)
(* affine rescaling of a fitted scaler is kept as a tag beside the values. *)
(* Floating point rounding is not modelled: arithmetic is exact.           *)
(***************************************************************************)
EXTENDS Integers, Sequences, FiniteSets, TLC

VARIABLES
    ctor,        \* the constructor arguments of the AutoPreprocessor (never assigned)
    self,        \* the attributes of the AutoPreprocessor instance
    pc,          \* position of the caller: "idle", "loop", "done", "raised"
    input,       \* the table passed to the running/last fit_transform call
    df,          \* local df: the copy of the table, after the drop pass
    types,       \* local types: sequence of <<column, type>>, dropped entries popped
    before,      \* local before['columns'] (column_stats of the input table)
    decisions,   \* local decisions: [drops, features], features a dict in insertion order
    y,           \* local y: <<>> (None) or <<target column>>
    processed,   \* local processed: the output DataFrame, a sequence of output columns
    datetime_features_created,
    i,           \* index in df.columns of the next column of the per-feature loop
    after_types, \* local after_types (infer_types of processed), set at the end
    written,     \* history: set of <<output name, input column>> assignments into processed
    advice,      \* <<>> or <<a call of advise on its own: its inputs, reply and result>>
    error        \* the exception that left fit_transform, "" when none

vars == <<ctor, self, pc, input, df, types, before, decisions, y, processed,
          datetime_features_created, i, after_types, written, advice, error>>

(***************************************************************************)
(* Bounds of the model.                                                    *)
(***************************************************************************)
NRows == 5      \* rows of every input table
MaxCols == 2    \* columns of an input table

(***************************************************************************)
(* Generic helpers.                                                        *)
(***************************************************************************)
None == <<>>
NA == <<>>
Some(v) == <<v>>

Range(s) == {s[k] : k \in DOMAIN s}

RECURSIVE SumSeq(_)
SumSeq(s) == IF s = <<>> THEN 0 ELSE Head(s) + SumSeq(Tail(s))

Abs(x) == IF x < 0 THEN -x ELSE x

RECURSIVE Gcd(_, _)
Gcd(a, b) == IF b = 0 THEN Abs(a) ELSE Gcd(b, a % b)

RECURSIVE GcdSeq(_)
GcdSeq(s) == IF s = <<>> THEN 0 ELSE Gcd(Head(s), GcdSeq(Tail(s)))

SortInts(s) == SortSeq(s, LAMBDA a, b : a < b)

\* python dict: d[k] = v on a sequence of <<key, value>> pairs kept in insertion order
DictKeys(d) == {d[k][1] : k \in DOMAIN d}
DictGet(d, key) == (CHOOSE k \in DOMAIN d : d[k][1] = key)
DictVal(d, key) == d[DictGet(d, key)][2]
DictSet(d, key, v) ==
    IF key \in DictKeys(d)
    THEN [d EXCEPT ![DictGet(d, key)] = <<key, v>>]
    ELSE Append(d, <<key, v>>)
DictPop(d, key) == SelectSeq(d, LAMBDA e : e[1] # key)

(***************************************************************************)
(* pandas Series helpers on a sequence of cells.                           *)
(***************************************************************************)
IsNA(c) == c = NA
NotNa(cells) == SelectSeq(cells, LAMBDA c : ~IsNA(c))
Values(cells) == [k \in DOMAIN NotNa(cells) |-> NotNa(cells)[k][1]]
\* s.nunique(dropna=True)
nunique(cells) == Cardinality(Range(NotNa(cells)))
\* number of missing cells; s.isna().mean() is NaCount(cells) / Len(cells)
NaCount(cells) == Len(cells) - Len(NotNa(cells))

(***************************************************************************)
(* Exact rationals <<numerator, denominator>>, denominator > 0, lowest     *)
(* terms.                                                                  *)
(***************************************************************************)
Rat(n, d) ==
    LET g == Gcd(n, d)
        sg == IF d < 0 THEN -1 ELSE 1
    IN  IF g = 0 THEN <<0, 1>> ELSE <<sg * (n \div g), sg * (d \div g)>>
RatLess(a, b) == a[1] * b[2] < b[1] * a[2]

\* central moments of a sequence of integers, up to a common positive factor:
\* e_k = (c * x_k - sum) / g, m2 = sum of e_k^2, m3 = sum of e_k^3
Moments(xs) ==
    LET c == Len(xs)
        S == SumSeq(xs)
        dd == [k \in DOMAIN xs |-> c * xs[k] - S]
        g == GcdSeq(dd)
        e == [k \in DOMAIN xs |-> IF g = 0 THEN 0 ELSE dd[k] \div g]
    IN  [c |-> c,
         m2 |-> SumSeq([k \in DOMAIN xs |-> e[k] * e[k]]),
         m3 |-> SumSeq([k \in DOMAIN xs |-> e[k] * e[k] * e[k]])]

\* A skewness value is NaN or a real known by its sign and its square
\* sq = <<num, den>> (so that thresholds on |skew| are decided exactly).
SkewNaN == [nan |-> TRUE, sign |-> 0, sq |-> <<0, 1>>]
SkewOf(sign, num, den) == [nan |-> FALSE, sign |-> sign, sq |-> <<num, den>>]
\* abs(skew) < p/q ; False for NaN, as every comparison with NaN
AbsSkewLess(skew, p, q) == ~skew.nan /\ skew.sq[1] * q * q < p * p * skew.sq[2]
\* abs(skew) > p/q ; False for NaN
AbsSkewGreater(skew, p, q) == ~skew.nan /\ skew.sq[1] * q * q > p * p * skew.sq[2]
Sign(x) == IF x < 0 THEN -1 ELSE IF x > 0 THEN 1 ELSE 0

\* pandas Series.skew(skipna=True): NaN below 3 values, 0 for zero variance,
\* else the bias-corrected G1 = sqrt(c(c-1))/(c-2) * m3 / m2^1.5
pandas_skew(xs) ==
    LET m == Moments(xs) IN
    IF m.c < 3 THEN SkewNaN
    ELSE IF m.m2 = 0 THEN SkewOf(0, 0, 1)
    ELSE SkewOf(Sign(m.m3), m.c * m.c * (m.c - 1) * m.m3 * m.m3,
                (m.c - 2) * (m.c - 2) * m.m2 * m.m2 * m.m2)

\* scipy.stats.skew (biased): g1 = m3 / m2^1.5, NaN for zero variance
scipy_skew(xs) ==
    LET m == Moments(xs) IN
    IF m.c = 0 \/ m.m2 = 0 THEN SkewNaN
    ELSE SkewOf(Sign(m.m3), m.c * m.m3 * m.m3, m.m2 * m.m2 * m.m2)

(***************************************************************************)
(* stats.py                                                                *)
(***************************************************************************)
UpperAlpha == "ABCDEFGHIJKLMNOPQRSTUVWXYZ"
LowerAlpha == "abcdefghijklmnopqrstuvwxyz"
LowerOf == [ch \in {SubSeq(UpperAlpha, k, k) : k \in 1..26} |->
               SubSeq(LowerAlpha, CHOOSE j \in 1..26 : SubSeq(UpperAlpha, j, j) = ch,
                                  CHOOSE j \in 1..26 : SubSeq(UpperAlpha, j, j) = ch)]
LowerChar(ch) == IF ch \in DOMAIN LowerOf THEN LowerOf[ch] ELSE ch
RECURSIVE LowerStr(_)
LowerStr(s) ==
    IF Len(s) = 0 THEN "" ELSE LowerChar(SubSeq(s, 1, 1)) \o LowerStr(SubSeq(s, 2, Len(s)))
EndsWith(s, suffix) ==
    Len(s) >= Len(suffix) /\ SubSeq(s, Len(s) - Len(suffix) + 1, Len(s)) = suffix

\* ID_PATTERN.match(col): ^(id|.*_id|code|.*_code|.*_number|.*_num)$, IGNORECASE
ID_PATTERN(col) ==
    LET n == LowerStr(col) IN
    \/ n = "id"
    \/ EndsWith(n, "_id")
    \/ n = "code"
    \/ EndsWith(n, "_code")
    \/ EndsWith(n, "_number")
    \/ EndsWith(n, "_num")

\* Timestamps are records [year, month, day, hour, minute].
Digits == "0123456789"
IsDigit(ch) == \E k \in 1..10 : SubSeq(Digits, k, k) = ch
DigitVal(ch) == (CHOOSE k \in 1..10 : SubSeq(Digits, k, k) = ch) - 1
RECURSIVE ParseNat(_)
ParseNat(s) ==
    IF Len(s) = 0 THEN 0
    ELSE 10 * ParseNat(SubSeq(s, 1, Len(s) - 1)) + DigitVal(SubSeq(s, Len(s), Len(s)))
AllDigits(s) == \A k \in 1..Len(s) : IsDigit(SubSeq(s, k, k))
DaysInMonth(yr, mo) ==
    IF mo = 2
    THEN (IF (yr % 4 = 0 /\ yr % 100 # 0) \/ yr % 400 = 0 THEN 29 ELSE 28)
    ELSE IF mo \in {4, 6, 9, 11} THEN 30 ELSE 31
\* pd.to_datetime(val) of one string, for the ISO forms "YYYY-MM-DD" and
\* "YYYY-MM-DD HH:MM": <<timestamp>>, or <<>> when the parse raises.
ParseDatetime(s) ==
    LET datePart == SubSeq(s, 1, 10)
        dateOk == /\ Len(s) \in {10, 16}
                  /\ AllDigits(SubSeq(s, 1, 4)) /\ SubSeq(s, 5, 5) = "-"
                  /\ AllDigits(SubSeq(s, 6, 7)) /\ SubSeq(s, 8, 8) = "-"
                  /\ AllDigits(SubSeq(s, 9, 10))
        timeOk == Len(s) = 10 \/
                  (/\ SubSeq(s, 11, 11) = " " /\ AllDigits(SubSeq(s, 12, 13))
                   /\ SubSeq(s, 14, 14) = ":" /\ AllDigits(SubSeq(s, 15, 16)))
    IN  IF ~(dateOk /\ timeOk) THEN <<>>
        ELSE LET yr == ParseNat(SubSeq(s, 1, 4))
                 mo == ParseNat(SubSeq(s, 6, 7))
                 dy == ParseNat(SubSeq(s, 9, 10))
                 hr == IF Len(s) = 16 THEN ParseNat(SubSeq(s, 12, 13)) ELSE 0
                 mi == IF Len(s) = 16 THEN ParseNat(SubSeq(s, 15, 16)) ELSE 0
             IN  IF mo \in 1..12 /\ dy \in 1..DaysInMonth(yr, mo) /\ hr \in 0..23 /\ mi \in 0..59
                 THEN <<[year |-> yr, month |-> mo, day |-> dy, hour |-> hr, minute |-> mi]>>
                 ELSE <<>>

\* s.dropna().head(50)
SampleSize == 50
Head50(cells) == SubSeq(NotNa(cells), 1, IF Len(NotNa(cells)) < SampleSize THEN Len(NotNa(cells)) ELSE SampleSize)

infer_type(col) ==
    IF ID_PATTERN(col.name) THEN "id"
    ELSE IF 10 * nunique(col.cells) > 9 * Len(col.cells) THEN "id"
    ELSE IF col.dtype = "f" THEN "numeric"
    ELSE IF col.dtype = "M" THEN "datetime"
    ELSE IF col.dtype = "O" THEN
        LET sample == Head50(col.cells)
            dt_count == Cardinality({k \in DOMAIN sample : ParseDatetime(sample[k][1]) # <<>>})
        IN  IF Len(sample) > 0 /\ 10 * dt_count > 7 * Len(sample)
            THEN "datetime" ELSE "categorical"
    ELSE "categorical"

\* infer_types(df): the dict column -> type, in column order
RECURSIVE infer_types(_)
infer_types(table) ==
    IF table = <<>> THEN <<>>
    ELSE DictSet(infer_types(SubSeq(table, 1, Len(table) - 1)),
                 table[Len(table)].name, infer_type(table[Len(table)]))

\* one entry of column_stats(df, types); the fields mean, median, std, min and
\* max are read by the report only and are left out
column_stat(col, tps) ==
    LET t == IF col.name \in DictKeys(tps) THEN DictVal(tps, col.name) ELSE "categorical"
        base == [name |-> col.name, type |-> t,
                 missing_rate |-> Rat(NaCount(col.cells), Len(col.cells)),
                 cardinality |-> nunique(col.cells)]
    IN  IF t = "numeric"
        THEN [name |-> base.name, type |-> base.type, missing_rate |-> base.missing_rate,
              cardinality |-> base.cardinality,
              skew |-> IF Len(NotNa(col.cells)) > 0 THEN pandas_skew(Values(col.cells))
                       ELSE SkewOf(0, 0, 1)]
        ELSE base

column_stats(table, tps) == [k \in DOMAIN table |-> column_stat(table[k], tps)]

(***************************************************************************)
(* llm_advisor.py                                                          *)
(* Python None inside a Decision is the string PyNone; a dict is a record  *)
(* (a function on its set of keys).                                        *)
(***************************************************************************)
PyNone == "<None>"
\* feature.get(key, default)
Get(d, key, default) == IF key \in DOMAIN d THEN d[key] ELSE default
\* data.setdefault(key, default)
SetDefault(d, key, default) ==
    IF key \in DOMAIN d THEN d ELSE [k \in DOMAIN d \cup {key} |-> IF k = key THEN default ELSE d[k]]

\* variant of _heuristic_decision whose numeric branch looks at the skew
\* alone: the test of missing_rate at line 14 is left out
_heuristic_decision_skew_only(feature) ==
    LET ftype == Get(feature, "type", PyNone)
        missing == Get(feature, "missing_rate", <<0, 1>>)
        skew == Get(feature, "skew", SkewOf(0, 0, 1))
        cardinality == Get(feature, "cardinality", 0)
    IN  IF ftype = "numeric" THEN
            [imputation |-> IF AbsSkewLess(skew, 1, 1) THEN "mean" ELSE "median",
             encoding |-> PyNone,
             scaling |-> IF AbsSkewLess(skew, 1, 1) THEN "standard" ELSE "minmax",
             reason |-> "Skew faible -> moyenne; sinon mediane plus robuste."]
        ELSE IF ftype = "categorical" THEN
            [imputation |-> "most_frequent",
             encoding |-> IF cardinality <= 20 THEN "onehot" ELSE "frequency",
             scaling |-> PyNone,
             reason |-> IF cardinality <= 20 THEN "Faible cardinalite -> One-Hot."
                        ELSE "Haute cardinalite -> Frequency encoding."]
        ELSE IF ftype = "datetime" THEN
            [imputation |-> IF RatLess(<<3, 10>>, missing) THEN "drop" ELSE "leave",
             encoding |-> "cyclical", scaling |-> PyNone,
             reason |-> "Dates encodees cycliquement si gardees."]
        ELSE
            [imputation |-> "leave", encoding |-> PyNone, scaling |-> PyNone,
             reason |-> "Type non pris en charge, laisse tel quel."]

_heuristic_decision(feature) ==
    LET ftype == Get(feature, "type", PyNone)
        missing == Get(feature, "missing_rate", <<0, 1>>)
        skew == Get(feature, "skew", SkewOf(0, 0, 1))
        cardinality == Get(feature, "cardinality", 0)
    IN  IF ftype = "numeric" THEN
            [imputation |-> IF RatLess(<<1, 5>>, missing) THEN "median"
                            ELSE IF AbsSkewLess(skew, 1, 1) THEN "mean" ELSE "median",
             encoding |-> PyNone,
             scaling |-> IF AbsSkewLess(skew, 1, 1) THEN "standard" ELSE "minmax",
             reason |-> IF RatLess(<<1, 5>>, missing)
                        THEN "Taux de valeurs manquantes eleve; la mediane est robuste."
                        ELSE "Skew faible -> moyenne; sinon mediane plus robuste."]
        ELSE IF ftype = "categorical" THEN
            [imputation |-> "most_frequent",
             encoding |-> IF cardinality <= 20 THEN "onehot" ELSE "frequency",
             scaling |-> PyNone,
             reason |-> IF cardinality <= 20 THEN "Faible cardinalite -> One-Hot."
                        ELSE "Haute cardinalite -> Frequency encoding."]
        ELSE IF ftype = "datetime" THEN
            [imputation |-> IF RatLess(<<3, 10>>, missing) THEN "drop" ELSE "leave",
             encoding |-> "cyclical", scaling |-> PyNone,
             reason |-> "Dates encodees cycliquement si gardees."]
        ELSE
            [imputation |-> "leave", encoding |-> PyNone, scaling |-> PyNone,
             reason |-> "Type non pris en charge, laisse tel quel."]

\* The process environment: a record over the variables _llm_endpoint_config reads,
\* "" for an unset variable (os.getenv gives None, which `or` treats like "").
EnvVars == {"OPENAI_API_KEY", "LLM_API_KEY", "HUAWEI_LLM_API_KEY", "OPENAI_BASE_URL",
            "LLM_API_BASE", "FULL_CHAT_COMPLETIONS_URL", "HUAWEI_LLM_ENDPOINT",
            "LLM_AUTH_HEADER"}
Or(a, b) == IF a # "" THEN a ELSE b
RECURSIVE RStripSlash(_)
RStripSlash(s) ==
    IF Len(s) > 0 /\ SubSeq(s, Len(s), Len(s)) = "/" THEN RStripSlash(SubSeq(s, 1, Len(s) - 1)) ELSE s

\* <<base_url, api_key, final_url, auth_header>>, "" standing for None
_llm_endpoint_config(env) ==
    LET api_key == Or(env["OPENAI_API_KEY"], Or(env["LLM_API_KEY"], env["HUAWEI_LLM_API_KEY"]))
        base_url == Or(env["OPENAI_BASE_URL"], env["LLM_API_BASE"])
        full_url == Or(env["FULL_CHAT_COMPLETIONS_URL"], env["HUAWEI_LLM_ENDPOINT"])
        auth_header == Or(env["LLM_AUTH_HEADER"], "Authorization")
        base == RStripSlash(base_url)
    IN  IF api_key = "" THEN <<"", "", "", "">>
        ELSE IF full_url # "" THEN <<"", api_key, full_url, auth_header>>
        ELSE IF base_url = "" THEN <<"", "", "", "">>
        ELSE IF EndsWith(base, "/chat/completions") THEN <<"", api_key, base, auth_header>>
        ELSE <<base, api_key, base \o "/chat/completions", auth_header>>

\* advise posts a request exactly when the environment gives a key and a URL
Configured(env) == _llm_endpoint_config(env)[2] # "" /\ _llm_endpoint_config(env)[3] # ""

\* What the HTTP exchange of one advise call does:
\*   exc     exception raised by requests.post ("" when it returns)
\*   status  the HTTP status of the response
\*   body    <<>> when resp.json() raises, else <<c>> with c = <<>> when the
\*           choices/message/content structure is absent and c = <<content>> else
\*   content [whole, braces]: whole is json.loads(content) (<<>> when it raises,
\*           else <<value>>), braces is <<>> when no {...} is found in content,
\*           else <<r>> with r the json.loads of the match (<<>> when it raises)
\* A JSON value is [tag |-> "dict", items |-> record] or [tag |-> "other"].
JsonDict(items) == [tag |-> "dict", items |-> items]
JsonOther == [tag |-> "other", items |-> <<>>]
EmptyContent == [whole |-> <<>>, braces |-> <<>>]

\* variant of ParseContent with data initialised to {} instead of None at
\* line 101: content that holds no JSON object leaves an empty dict
ParseContent_empty_dict(content) ==
    IF content.whole # <<>> THEN [raised |-> FALSE, data |-> content.whole]
    ELSE IF content.braces = <<>> THEN [raised |-> FALSE, data |-> Some(JsonDict(<<>>))]
    ELSE IF content.braces[1] = <<>> THEN [raised |-> TRUE, data |-> <<>>]
    ELSE [raised |-> FALSE, data |-> content.braces[1]]

\* data of advise after the two parse attempts: [raised, data]
ParseContent(content) ==
    IF content.whole # <<>> THEN [raised |-> FALSE, data |-> content.whole]
    ELSE IF content.braces = <<>> THEN [raised |-> FALSE, data |-> <<>>]
    ELSE IF content.braces[1] = <<>> THEN [raised |-> TRUE, data |-> <<>>]
    ELSE [raised |-> FALSE, data |-> content.braces[1]]

WithDefaults(data) ==
    SetDefault(SetDefault(SetDefault(SetDefault(data,
        "imputation", "leave"), "encoding", PyNone), "scaling", PyNone), "reason", "")

\* advise(feature_stats, model) under environment env, the remote service
\* answering reply: [called, result]
advise(feature_stats, env, reply) ==
    LET cfg == _llm_endpoint_config(env)
        api_key == cfg[2]
        final_url == cfg[3]
        fallback == _heuristic_decision(feature_stats)
    IN  IF api_key = "" \/ final_url = "" THEN [called |-> FALSE, result |-> fallback]
        ELSE IF reply.exc # "" THEN [called |-> TRUE, result |-> fallback]
        ELSE IF reply.status >= 400 THEN [called |-> TRUE, result |-> fallback]
        ELSE IF reply.body = <<>> THEN [called |-> TRUE, result |-> fallback]
        ELSE LET content == IF reply.body[1] = <<>> THEN EmptyContent ELSE reply.body[1][1]
                 parsed == ParseContent(content)
             IN  IF parsed.raised THEN [called |-> TRUE, result |-> fallback]
                 ELSE IF parsed.data = <<>> \/ parsed.data[1].tag # "dict"
                 THEN [called |-> TRUE, result |-> fallback]
                 ELSE [called |-> TRUE, result |-> WithDefaults(parsed.data[1].items)]

(***************************************************************************)
(* Orderings used by sorting, mode and most_frequent.                      *)
(***************************************************************************)
\* the characters of the model's strings, in code point order
Alphabet == " -0123456789:ABCDEFGHIJKLMNOPQRSTUVWXYZ_abcdefghijklmnopqrstuvwxyz"
CharCode(ch) == CHOOSE k \in 1..Len(Alphabet) : SubSeq(Alphabet, k, k) = ch
RECURSIVE StrLess(_, _)
StrLess(a, b) ==
    IF Len(b) = 0 THEN FALSE
    ELSE IF Len(a) = 0 THEN TRUE
    ELSE LET ca == CharCode(SubSeq(a, 1, 1))
             cb == CharCode(SubSeq(b, 1, 1))
         IN  IF ca # cb THEN ca < cb
             ELSE StrLess(SubSeq(a, 2, Len(a)), SubSeq(b, 2, Len(b)))
TsKey(t) == (((t.year * 12 + (t.month - 1)) * 31 + (t.day - 1)) * 24 + t.hour) * 60 + t.minute
TsLess(a, b) == TsKey(a) < TsKey(b)
RatMin(a, b) == IF RatLess(b, a) THEN b ELSE a
RatMax(a, b) == IF RatLess(a, b) THEN b ELSE a

Count(xs, v) == Cardinality({k \in DOMAIN xs : xs[k] = v})
\* the most frequent value of xs, the smallest one under Less among ties
\* (SimpleImputer(strategy='most_frequent'), Series.mode().iloc[0])
\* the order of the values of a column: strings by code point, timestamps by time
Less(kind, a, b) == IF kind = "str" THEN StrLess(a, b) ELSE TsLess(a, b)
MostFrequent(xs, kind) ==
    CHOOSE v \in Range(xs) :
        \A w \in Range(xs) :
            \/ Count(xs, w) < Count(xs, v)
            \/ (Count(xs, w) = Count(xs, v) /\ (w = v \/ Less(kind, v, w)))
\* the elements of the set S as a sequence sorted by Less
SortedSet(S, kind) ==
    [p \in 1..Cardinality(S) |-> CHOOSE v \in S : Cardinality({w \in S : Less(kind, w, v)}) = p - 1]

(***************************************************************************)
(* sklearn.impute.SimpleImputer on one column of integers: the imputed     *)
(* column as rationals.  KNNImputer(n_neighbors=5) on a single column has  *)
(* no other feature to measure a distance on and fills with the mean.      *)
(***************************************************************************)
Mean(xs) == Rat(SumSeq(xs), Len(xs))
Median(xs) ==
    LET srt == SortInts(xs)
        c == Len(xs)
    IN  IF c % 2 = 1 THEN Rat(srt[(c + 1) \div 2], 1)
        ELSE Rat(srt[c \div 2] + srt[c \div 2 + 1], 2)
Impute(cells, strategy) ==
    LET fill == IF strategy = "mean" THEN Mean(Values(cells)) ELSE Median(Values(cells))
    IN  [k \in DOMAIN cells |-> IF IsNA(cells[k]) THEN fill ELSE Rat(cells[k][1], 1)]

(***************************************************************************)
(* transformers.py                                                         *)
(***************************************************************************)
\* the values of a sequence of rationals over the common denominator D
CommonDen(rs) == IF \E k \in DOMAIN rs : rs[k][2] # 1
                 THEN (CHOOSE k \in DOMAIN rs : rs[k][2] # 1 /\ \A j \in DOMAIN rs : rs[k][2] % rs[j][2] = 0)
                 ELSE 1
OverDen(rs, D) == [k \in DOMAIN rs |-> rs[k][1] * (D \div rs[k][2])]

\* 4 * Series.quantile(a/4) of sorted integers srt (linear interpolation)
Quantile4(srt, a) ==
    LET h == (Len(srt) - 1) * a
        lo == h \div 4
        fr == h % 4
    IN  IF fr = 0 THEN 4 * srt[lo + 1]
        ELSE 4 * srt[lo + 1] + fr * (srt[lo + 2] - srt[lo + 1])

\* OutlierCapper(method='iqr').fit(X): params_ = [low, high]
OutlierCapper_fit(X) ==
    LET D == CommonDen(X)
        srt == SortInts(OverDen(X, D))
        q1 == Quantile4(srt, 1)
        q3 == Quantile4(srt, 3)
        iqr == q3 - q1
    IN  [low |-> Rat(2 * q1 - 3 * iqr, 8 * D), high |-> Rat(2 * q3 + 3 * iqr, 8 * D)]

\* variant of OutlierCapper.transform that clips at the upper bound only
OutlierCapper_transform_upper_only(params_, X) ==
    [k \in DOMAIN X |-> RatMin(X[k], params_.high)]

\* OutlierCapper.transform(X): s.clip(lower=low, upper=high)
OutlierCapper_transform(params_, X) ==
    [k \in DOMAIN X |-> RatMin(RatMax(X[k], params_.low), params_.high)]

\* FrequencyEncoder.fit_transform(X): each value mapped to its relative frequency
FrequencyEncoder_fit_transform(X) ==
    [k \in DOMAIN X |-> Rat(Count(X, X[k]), Len(X))]

\* TargetMeanEncoder.fit_transform(X, y): the smoothed category mean
\*   global_mean * (1 - w) + mean * w,  w = 1 / (1 + exp(-(count - smoothing)))
\* is irrational; a value is kept as the pair <<sum of y, count>> of its
\* category, which determines it; a category without a target value gets the
\* pair of the whole column (fillna(global_mean)).
TargetMeanEncoder_fit_transform(X, ycells) ==
    LET rowsOf(v) == {k \in DOMAIN X : X[k] = v /\ ~IsNA(ycells[k])}
        all == {k \in DOMAIN X : ~IsNA(ycells[k])}
        pair(R) == <<SumSeq([k \in 1..Len(X) |-> IF k \in R THEN ycells[k][1] ELSE 0]),
                     Cardinality(R)>>
    IN  [k \in DOMAIN X |-> IF rowsOf(X[k]) = {} THEN pair(all) ELSE pair(rowsOf(X[k]))]

(***************************************************************************)
(* pipeline.py: the per-column transforms of AutoPreprocessor.fit_transform *)
(* An output column is [name, dtype, cells, scaler, src, role]: cells are   *)
(* present rationals, scaler is the fitted scaler applied on top of them    *)
(* ("none", "standard", "minmax"), src is the input column the assignment   *)
(* was computed from and role the branch that made it.                      *)
(***************************************************************************)
OutCol(name, vals, scaler, src, role) ==
    [name |-> name, dtype |-> "f", cells |-> [k \in DOMAIN vals |-> Some(vals[k])],
     scaler |-> scaler, src |-> src, role |-> role]

\* AutoPreprocessor._choose_scaling_method(series)
_choose_scaling_method(xs) ==
    IF Len(xs) < 2 THEN "standard"
    ELSE IF AbsSkewGreater(scipy_skew(xs), 1, 2) THEN "minmax" ELSE "standard"

\* the scaler fit on a column: numeric_scaler.get(scaler_key, StandardScaler())
ScalerFor(me, xs) ==
    IF ~me.scaling_enabled THEN "none"
    ELSE LET scaler_key == IF me.scaling_method = PyNone THEN _choose_scaling_method(xs)
                           ELSE me.scaling_method
         IN  IF scaler_key \in {"standard", "minmax"} THEN scaler_key ELSE "standard"

\* lines 133-163
NumericBranch(me, col, decision) ==
    LET strategy == IF decision["imputation"] \in {"mean", "knn"} THEN "mean" ELSE "median"
        s_imp == Impute(col.cells, strategy)
        s_proc == IF me.apply_outlier_treatment
                  THEN OutlierCapper_transform(OutlierCapper_fit(s_imp), s_imp)
                  ELSE s_imp
    IN  <<OutCol(col.name, s_proc, ScalerFor(me, Values(col.cells)), col.name, "numeric")>>

\* variant of ChosenEncoding whose default is onehot whatever the number of
\* distinct values: low_card_threshold is not consulted
ChosenEncoding_onehot_default(me, col, decision) ==
    IF Get(decision, "encoding", PyNone) \in {PyNone, ""} THEN "onehot"
    ELSE decision["encoding"]

\* the encoding chosen at line 168 and the branch taken at lines 169-183
ChosenEncoding(me, col, decision) ==
    IF Get(decision, "encoding", PyNone) \in {PyNone, ""}
    THEN (IF nunique(col.cells) <= me.low_card_threshold THEN "onehot" ELSE "frequency")
    ELSE decision["encoding"]
AppliedEncoding(enc, yy) ==
    IF enc = "onehot" THEN "onehot"
    ELSE IF enc = "frequency" THEN "frequency"
    ELSE IF enc = "target" /\ yy # None /\ yy[1].dtype = "f" THEN "target"
    ELSE "frequency"

\* lines 165-183
CategoricalBranch(me, col, decision, yy) ==
    LET fill == MostFrequent(Values(col.cells), "str")
        s_imp == [k \in DOMAIN col.cells |-> IF IsNA(col.cells[k]) THEN fill ELSE col.cells[k][1]]
        enc == AppliedEncoding(ChosenEncoding(me, col, decision), yy)
        categories_ == SortedSet(Range(s_imp), "str")
    IN  IF enc = "onehot" THEN
            [c \in DOMAIN categories_ |->
                OutCol(col.name \o "__" \o categories_[c],
                       [k \in DOMAIN s_imp |-> IF s_imp[k] = categories_[c] THEN <<1, 1>> ELSE <<0, 1>>],
                       "none", col.name, "onehot")]
        ELSE IF enc = "target" THEN
            <<OutCol(col.name, TargetMeanEncoder_fit_transform(s_imp, yy[1].cells),
                     "none", col.name, "target")>>
        ELSE <<OutCol(col.name, FrequencyEncoder_fit_transform(s_imp), "none", col.name, "frequency")>>

\* Timestamp.dayofweek, 0 = Monday
DayOfWeek(t) ==
    LET off == <<0, 3, 2, 5, 0, 3, 5, 1, 4, 6, 2, 4>>
        yr == IF t.month < 3 THEN t.year - 1 ELSE t.year
        sunday0 == (yr + yr \div 4 - yr \div 100 + yr \div 400 + off[t.month] + t.day) % 7
    IN  (sunday0 + 6) % 7

categorize_hour(h) ==
    IF 6 <= h /\ h < 12 THEN "morning"
    ELSE IF 12 <= h /\ h < 18 THEN "afternoon"
    ELSE "evening"

\* pd.to_datetime(s, errors='coerce'): a sequence of cells, <<>> for NaT
ToDatetime(col) ==
    [k \in DOMAIN col.cells |->
        IF IsNA(col.cells[k]) THEN NA
        ELSE IF col.dtype = "M" THEN col.cells[k]
        ELSE ParseDatetime(col.cells[k][1])]

PartDayCategories == <<"morning", "afternoon", "evening">>

\* lines 187-250, for the first datetime column; now is pd.Timestamp.now()
DatetimeBranch(me, col, now) ==
    LET parsed0 == ToDatetime(col)
        fill_date == IF NotNa(parsed0) # <<>> THEN MostFrequent(Values(parsed0), "ts") ELSE now
        s_parsed == [k \in DOMAIN parsed0 |-> IF IsNA(parsed0[k]) THEN fill_date ELSE parsed0[k][1]]
        ints(f(_)) == [k \in DOMAIN s_parsed |-> f(s_parsed[k])]
        rats(xs) == [k \in DOMAIN xs |-> <<xs[k], 1>>]
        yearOf(t) == t.year
        monthOf(t) == t.month
        dayOf(t) == t.day
        weekend(t) == IF DayOfWeek(t) >= 5 THEN 1 ELSE 0
        scaler == ScalerFor(me, ints(yearOf))
        hasHour == s_parsed # <<>>
        partDay(c) == [k \in DOMAIN s_parsed |->
                          IF categorize_hour(s_parsed[k].hour) = c THEN <<1, 1>> ELSE <<0, 1>>]
    IN  << OutCol("year", rats(ints(yearOf)), scaler, col.name, "datetime"),
           OutCol("month", rats(ints(monthOf)), scaler, col.name, "datetime"),
           OutCol("day", rats(ints(dayOf)), scaler, col.name, "datetime"),
           OutCol("day_of_week", rats(ints(DayOfWeek)), scaler, col.name, "datetime"),
           OutCol("is_weekend", rats(ints(weekend)), "none", col.name, "datetime") >>
        \o (IF hasHour
            THEN [c \in DOMAIN PartDayCategories |->
                     OutCol("part_day_" \o PartDayCategories[c], partDay(PartDayCategories[c]),
                            "none", col.name, "datetime")]
            ELSE <<>>)

\* lines 252-254: the raw column is passed through
LeaveBranch(col) ==
    <<[name |-> col.name, dtype |-> col.dtype, cells |-> col.cells,
       scaler |-> "none", src |-> col.name, role |-> "leave"]>>

\* processed[name] = values : an existing column is replaced in place, a new
\* one is appended
RECURSIVE Assign(_, _)
Assign(frame, cols) ==
    IF cols = <<>> THEN frame
    ELSE LET c == Head(cols)
             at == {k \in DOMAIN frame : frame[k].name = c.name}
             next == IF at = {} THEN Append(frame, c)
                     ELSE [frame EXCEPT ![CHOOSE k \in at : TRUE] = c]
         IN  Assign(next, Tail(cols))

\* variant of Iteration without the early continue of lines 131-132
Iteration_ignores_drop(me, col, t, decision, yy, created, now) ==
    IF t = "numeric" THEN [cols |-> NumericBranch(me, col, decision), created |-> created]
    ELSE IF t = "categorical"
    THEN [cols |-> CategoricalBranch(me, col, decision, yy), created |-> created]
    ELSE IF t = "datetime" THEN
        (IF ~created THEN [cols |-> DatetimeBranch(me, col, now), created |-> TRUE]
         ELSE [cols |-> <<>>, created |-> created])
    ELSE [cols |-> LeaveBranch(col), created |-> created]

\* variant of Iteration without the assignment of line 250: the flag
\* datetime_features_created is never set
Iteration_every_datetime(me, col, t, decision, yy, created, now) ==
    IF decision["imputation"] = "drop" THEN [cols |-> <<>>, created |-> created]
    ELSE IF t = "numeric" THEN [cols |-> NumericBranch(me, col, decision), created |-> created]
    ELSE IF t = "categorical"
    THEN [cols |-> CategoricalBranch(me, col, decision, yy), created |-> created]
    ELSE IF t = "datetime" THEN [cols |-> DatetimeBranch(me, col, now), created |-> created]
    ELSE [cols |-> LeaveBranch(col), created |-> created]

\* the body of one iteration of the loop at line 121 after the Decision is
\* recorded (lines 130-254): the columns assigned into processed, in order,
\* and the new value of datetime_features_created
Iteration(me, col, t, decision, yy, created, now) ==
    IF decision["imputation"] = "drop" THEN [cols |-> <<>>, created |-> created]
    ELSE IF t = "numeric" THEN [cols |-> NumericBranch(me, col, decision), created |-> created]
    ELSE IF t = "categorical"
    THEN [cols |-> CategoricalBranch(me, col, decision, yy), created |-> created]
    ELSE IF t = "datetime" THEN
        (IF ~created THEN [cols |-> DatetimeBranch(me, col, now), created |-> TRUE]
         ELSE [cols |-> <<>>, created |-> created])
    ELSE [cols |-> LeaveBranch(col), created |-> created]

\* variant of DropRule with >= in place of > at line 87
DropRule_non_strict(me, col, t) ==
    \/ t = "id"
    \/ nunique(col.cells) <= 1
    \/ 100 * NaCount(col.cells) >= me.high_missing_threshold * Len(col.cells)

\* lines 76-89: the drop rules, high_missing_threshold in percent
DropRule(me, col, t) ==
    \/ t = "id"
    \/ nunique(col.cells) <= 1
    \/ 100 * NaCount(col.cells) > me.high_missing_threshold * Len(col.cells)

(***************************************************************************)
(* Inputs: the tables, constructor arguments, environments and service     *)
(* replies the model draws from.                                           *)
(***************************************************************************)
\* a column of NRows cells: m missing cells followed by vals repeated in turn
Fill(m, vals) ==
    [r \in 1..NRows |-> IF r <= m THEN NA ELSE Some(vals[((r - m - 1) % Len(vals)) + 1])]
Column(name, dtype, cells) == [name |-> name, dtype |-> dtype, cells |-> cells]
Stamp(yr, mo, dy, hr, mi) == [year |-> yr, month |-> mo, day |-> dy, hour |-> hr, minute |-> mi]

Catalog ==
    << Column("Order_ID", "f", Fill(0, <<1, 2>>)),
      Column("serial", "f", Fill(0, [k \in 1..NRows |-> k])),
      Column("year", "f", Fill(0, <<2020, 2021, 2022>>)),
      Column("year", "f", Fill(0, <<2020>>)),
      Column("age", "f", Fill(1, <<0, 1, 2, 3>>)),
      Column("income", "f", Fill(2, <<0, 0, 9>>)),
      Column("y", "f", Fill(0, <<0, 1>>)),
      Column("y", "f", Fill(0, <<1>>)),
      Column("city", "O", Fill(1, <<"x", "id", "x">>)),
      Column("date", "O", Fill(1, <<"2023-01-07", "2023-01-09", "n/a">>)),
      Column("date2", "M", Fill(2, <<Stamp(2024, 2, 29, 9, 0), Stamp(2024, 3, 1, 18, 30)>>)),
      Column("is_weekend", "f", Fill(0, <<0, 1, 2>>)) >>

\* the tables: 1..MaxCols catalog columns with distinct names, in any order;
\* a table is drawn as the sequence of the catalog positions of its columns
TableChoices ==
    UNION {{p \in [1..w -> DOMAIN Catalog] :
               \A a, b \in 1..w : a # b => Catalog[p[a]].name # Catalog[p[b]].name}
           : w \in 1..MaxCols}
TableOf(p) == [k \in DOMAIN p |-> Catalog[p[k]]]

\* constructor arguments; high_missing_threshold is in percent, as app.py
\* reads it before dividing by 100
\* outlier treatment is on with the default threshold and off with the other
Configs ==
    {c \in [target_column : {PyNone, "y"},
            low_card_threshold : {10},
            high_missing_threshold : {30, 40},
            apply_outlier_treatment : BOOLEAN,
            scaling_enabled : {TRUE},
            scaling_method : {PyNone},
            llm_model : {PyNone}] :
        c.apply_outlier_treatment <=> c.high_missing_threshold = 30}

NoEnv == [v \in EnvVars |-> ""]
Envs ==
    { NoEnv,
      [NoEnv EXCEPT !["LLM_API_KEY"] = "k"],
      [NoEnv EXCEPT !["OPENAI_API_KEY"] = "k", !["OPENAI_BASE_URL"] = "https://llm/v1/"],
      [NoEnv EXCEPT !["HUAWEI_LLM_API_KEY"] = "k", !["HUAWEI_LLM_ENDPOINT"] = "https://hw/infer",
                    !["LLM_AUTH_HEADER"] = "X-Auth-Token"] }

Response(status, body) == [exc |-> "", status |-> status, body |-> body]
Content(whole, braces) == Some(Some([whole |-> whole, braces |-> braces]))
ReplyConnectionError == [exc |-> "ConnectionError", status |-> 0, body |-> <<>>]
ReplyTimeout == [exc |-> "Timeout", status |-> 0, body |-> <<>>]
\* an error status whose body nevertheless carries a well-formed answer
ReplyServerError ==
    Response(500, Content(Some(JsonDict([imputation |-> "drop", encoding |-> "none",
                                         scaling |-> "none", reason |-> "erreur"])), <<>>))
ReplyNotJson == Response(200, <<>>)
ReplyNoChoices == Response(200, Some(<<>>))
ReplyProse == Response(200, Content(<<>>, <<>>))
ReplyBrokenObject == Response(200, Content(<<>>, Some(<<>>)))
ReplyJsonList == Response(200, Content(Some(JsonOther), <<>>))
ReplyEmptyObject == Response(200, Content(Some(JsonDict(<<>>)), <<>>))
ReplyDrop ==
    Response(200, Content(Some(JsonDict([imputation |-> "drop", encoding |-> "none",
                                         scaling |-> "none", reason |-> "inutile"])), <<>>))
ReplyMeanTarget ==
    Response(200, Content(<<>>, Some(Some(JsonDict([imputation |-> "mean", encoding |-> "target",
                                                    scaling |-> "standard", reason |-> "ok"])))))
ReplyOutOfSchema ==
    Response(200, Content(Some(JsonDict([imputation |-> "zscore", encoding |-> "hash"])), <<>>))
FailedReplies ==
    {ReplyConnectionError, ReplyTimeout, ReplyServerError, ReplyNotJson, ReplyNoChoices,
     ReplyProse, ReplyBrokenObject, ReplyJsonList}
ObjectReplies == {ReplyEmptyObject, ReplyDrop, ReplyMeanTarget, ReplyOutOfSchema}
Replies == FailedReplies \cup ObjectReplies
\* inside a run of fit_transform: one environment of each kind, one failing
\* exchange and the object replies
RunEnvs == {NoEnv, [NoEnv EXCEPT !["OPENAI_API_KEY"] = "k", !["OPENAI_BASE_URL"] = "https://llm/v1/"]}
RunReplies == {ReplyTimeout} \cup ObjectReplies

\* no HTTP exchange takes place
NoExchange == [exc |-> "", status |-> 0, body |-> <<>>]

NowChoices == {Stamp(2026, 1, 1, 12, 0)}

(***************************************************************************)
(* The state machine.                                                      *)
(***************************************************************************)
NoLocals ==
    /\ df = <<>> /\ types = <<>> /\ before = <<>>
    /\ decisions = [drops |-> <<>>, features |-> <<>>]
    /\ y = None /\ processed = <<>> /\ datetime_features_created = FALSE
    /\ i = 0 /\ after_types = <<>> /\ written = {} /\ advice = <<>>

\* the locals of a call that has been left
LocalsGone ==
    /\ df' = <<>> /\ types' = <<>> /\ before' = <<>>
    /\ decisions' = [drops |-> <<>>, features |-> <<>>]
    /\ y' = None /\ processed' = <<>> /\ datetime_features_created' = FALSE
    /\ i' = 0 /\ after_types' = <<>> /\ written' = {} /\ advice' = <<>>

\* AutoPreprocessor.__init__ (lines 25-41)
Init ==
    /\ ctor \in Configs
    /\ self = ctor
    /\ pc = "idle"
    /\ input = <<>>
    /\ error = ""
    /\ NoLocals

Names(table) == {table[k].name : k \in DOMAIN table}
ColumnNamed(table, name) == table[CHOOSE k \in DOMAIN table : table[k].name = name]

\* variant of DropPass without lines 90-92: the drops are listed but the
\* columns stay in df and in types
DropPass_no_removal(me, table) ==
    LET target == IF me.target_column # PyNone /\ me.target_column \notin Names(table)
                  THEN PyNone ELSE me.target_column
        types0 == infer_types(table)
        dropped == {k \in DOMAIN table :
                       DropRule(me, table[k], DictVal(types0, table[k].name))}
        keep(e) == \A k \in dropped : table[k].name # e
    IN  [target |-> target,
         before |-> column_stats(table, types0),
         drops |-> SelectSeq([k \in DOMAIN table |-> table[k].name], LAMBDA n : ~keep(n)),
         df |-> table,
         types |-> types0]

\* lines 66-92: the target check, infer_types, the before statistics and
\* the drop pass
DropPass(me, table) ==
    LET target == IF me.target_column # PyNone /\ me.target_column \notin Names(table)
                  THEN PyNone ELSE me.target_column
        types0 == infer_types(table)
        dropped == {k \in DOMAIN table :
                       DropRule(me, table[k], DictVal(types0, table[k].name))}
        keep(e) == \A k \in dropped : table[k].name # e
    IN  [target |-> target,
         before |-> column_stats(table, types0),
         drops |-> SelectSeq([k \in DOMAIN table |-> table[k].name], LAMBDA n : ~keep(n)),
         df |-> SelectSeq(table, LAMBDA c : keep(c.name)),
         types |-> SelectSeq(types0, LAMBDA e : keep(e[1]))]

\* fit_transform, lines 65-119: up to the start of the per-feature loop
FitTransformBegin(table) ==
    /\ pc = "idle"
    /\ \E d \in {DropPass(self, table)} :
           /\ self' = [self EXCEPT !.target_column = d.target]
           /\ input' = table
           /\ IF d.target # PyNone /\ d.target \notin Names(d.df)
              THEN \* y = df[self.target_column] raises KeyError
                   /\ pc' = "raised"
                   /\ error' = "KeyError"
                   /\ LocalsGone
              ELSE /\ pc' = "loop"
                   /\ error' = ""
                   /\ df' = d.df
                   /\ types' = d.types
                   /\ before' = d.before
                   /\ decisions' = [drops |-> d.drops, features |-> <<>>]
                   /\ y' = IF d.target # PyNone THEN Some(ColumnNamed(d.df, d.target)) ELSE None
                   /\ processed' = <<>>
                   /\ datetime_features_created' = FALSE
                   /\ i' = 1
                   /\ after_types' = <<>>
                   /\ written' = {}
                   /\ advice' = <<>>
    /\ UNCHANGED ctor

\* line 126: the statistics entry of the column, {} when there is none
StatsEntry(stats, name) ==
    LET found == {k \in DOMAIN stats : stats[k].name = name}
    IN  IF found = {} THEN <<>> ELSE stats[CHOOSE k \in found : \A j \in found : k <= j]

\* one iteration of the loop at lines 121-254
ProcessColumn(env, reply, now) ==
    /\ pc = "loop"
    /\ i <= Len(df)
    /\ (reply = NoExchange) <=> ~Configured(env)
    /\ IF df[i].name = self.target_column
       THEN UNCHANGED <<decisions, processed, datetime_features_created, written>>
       ELSE \E stats_entry \in {StatsEntry(before, df[i].name)} :
            \E call \in {advise(stats_entry, env, reply)} :
            \E it \in {Iteration(self, df[i], DictVal(types, df[i].name), call.result, y,
                                 datetime_features_created, now)} :
                /\ decisions' = [decisions EXCEPT !.features = DictSet(@, df[i].name, call.result)]
                /\ processed' = Assign(processed, it.cols)
                /\ datetime_features_created' = it.created
                /\ written' = written \cup {<<it.cols[k].name, it.cols[k].src>> : k \in DOMAIN it.cols}
    /\ i' = i + 1
    /\ UNCHANGED <<ctor, self, pc, input, df, types, before, y, after_types, advice, error>>

\* lines 256-267: the after statistics and the result bundle
FitTransformReturn ==
    /\ pc = "loop"
    /\ i > Len(df)
    /\ after_types' = infer_types(processed)
    /\ pc' = "done"
    /\ UNCHANGED <<ctor, self, input, df, types, before, decisions, y, processed,
                   datetime_features_created, i, written, advice, error>>

\* the caller is done with the result bundle, or with the exception, of the
\* call; the preprocessor object stays
CallerContinues ==
    /\ pc \in {"done", "raised"}
    /\ pc' = "idle"
    /\ error' = ""
    /\ input' = <<>>
    /\ LocalsGone
    /\ UNCHANGED <<ctor, self>>

\* a call of fit_transform on some table
FitTransformCall ==
    /\ pc = "idle"
    /\ \E p \in TableChoices : FitTransformBegin(TableOf(p))

\* an iteration of the loop, with what the environment and the service do
LoopStep ==
    /\ pc = "loop"
    /\ \E env \in RunEnvs, reply \in RunReplies \cup {NoExchange}, now \in NowChoices :
          ProcessColumn(env, reply, now)

Next ==
    \/ FitTransformCall
    \/ LoopStep
    \/ FitTransformReturn
    \/ CallerContinues

Spec == Init /\ [][Next]_vars

(***************************************************************************)
(* advise on its own: the statistics entries are those column_stats gives  *)
(* for the catalog columns, the empty entry and hand-made entries.         *)
(***************************************************************************)
Entry(type, missing, skew, cardinality) ==
    [name |-> "col", type |-> type, missing_rate |-> missing, skew |-> skew,
     cardinality |-> cardinality]
Entries ==
    [k \in DOMAIN Catalog |-> column_stat(Catalog[k], infer_types(<<Catalog[k]>>))]
    \o << <<>>,
          Entry("numeric", <<1, 2>>, SkewOf(1, 1, 100), 4),
          Entry("numeric", <<0, 1>>, SkewOf(1, 49, 100), 4),
          Entry("numeric", <<1, 5>>, SkewOf(-1, 9, 4), 4),
          [name |-> "col", type |-> "categorical", missing_rate |-> <<0, 1>>, cardinality |-> 21],
          [name |-> "col", type |-> "datetime", missing_rate |-> <<2, 5>>, cardinality |-> 3],
          Entry("numeric", <<0, 1>>, SkewOf(1, 1, 1), 4),
          Entry("numeric", <<0, 1>>, SkewNaN, 1),
          [name |-> "col", type |-> "numeric", missing_rate |-> <<0, 1>>, cardinality |-> 3],
          [name |-> "col", type |-> "categorical", missing_rate |-> <<0, 1>>, cardinality |-> 20],
          [name |-> "col", type |-> "datetime", missing_rate |-> <<3, 10>>, cardinality |-> 3] >>

InitAdvise ==
    /\ ctor \in {c \in Configs : c.target_column = PyNone /\ c.high_missing_threshold = 30
                                  /\ c.apply_outlier_treatment}
    /\ self = ctor
    /\ pc = "advisor"
    /\ input = <<>>
    /\ error = ""
    /\ NoLocals

\* one call advise(feature_stats, model)
AdviseCall(e, env, reply) ==
    /\ pc = "advisor"
    /\ (reply = NoExchange) <=> ~Configured(env)
    /\ \E call \in {advise(Entries[e], env, reply)} :
           advice' = Some([feature |-> Entries[e], env |-> env, called |-> call.called,
                           reply |-> IF call.called THEN Some(reply) ELSE <<>>,
                           result |-> call.result])
    /\ UNCHANGED <<ctor, self, pc, input, df, types, before, decisions, y, processed,
                   datetime_features_created, i, after_types, written, error>>

NextAdvise ==
    \E e \in DOMAIN Entries, env \in Envs, reply \in Replies \cup {NoExchange} :
        AdviseCall(e, env, reply)

SpecAdvise == InitAdvise /\ [][NextAdvise]_vars

(***************************************************************************)
(* The properties.  A call of fit_transform is under way when pc = "loop", *)
(* has returned when pc = "done" and has raised when pc = "raised".        *)
(***************************************************************************)
Drops == Range(decisions.drops)
Features == DictKeys(decisions.features)
DecisionOf(name) == DictVal(decisions.features, name)
\* the names written into processed from the input column called name
Produced(name) == {w[1] : w \in {v \in written : v[2] = name}}
First(S) == CHOOSE k \in S : \A j \in S : k <= j

\* C1: every call of fit_transform returns a result bundle; none raises, also
\* when the configured target column is in the table and satisfies a drop rule.
C1_fit_transform_returns == pc # "raised"

\* C2: no name in decisions['drops'] is a key of decisions['features'], and no
\* column of the processed table is, or is derived from, a dropped column,
\* also when the dropped column's name is the name of a derived column.
C2_dropped_columns_absent ==
    pc \in {"loop", "done"} =>
        \A k \in DOMAIN input :
            input[k].name \in Drops =>
                /\ input[k].name \notin Features
                /\ Produced(input[k].name) = {}
                /\ \A c \in DOMAIN processed : processed[c].src # input[k].name

\* a constant column "year" is dropped while the datetime column "date" gives
\* the processed table its column "year"
C2_dropped_year_beside_derived_year ==
    /\ pc = "done"
    /\ "year" \in Drops
    /\ \E c \in DOMAIN processed : processed[c].name = "year" /\ processed[c].src = "date"

\* C3: every column of the processed table traces back to exactly one input
\* column: no output column name is written by two different input columns.
C3_one_source_per_output ==
    \A a, b \in written : a[1] = b[1] => a[2] = b[2]

NoCredential(env) ==
    env["OPENAI_API_KEY"] = "" /\ env["LLM_API_KEY"] = "" /\ env["HUAWEI_LLM_API_KEY"] = ""
NoEndpoint(env) ==
    /\ env["OPENAI_BASE_URL"] = "" /\ env["LLM_API_BASE"] = ""
    /\ env["FULL_CHAT_COMPLETIONS_URL"] = "" /\ env["HUAWEI_LLM_ENDPOINT"] = ""

\* C4: advise returns the Decision of _heuristic_decision for the same entry
\* when the HTTP call fails, times out, answers with an error status, with a
\* body that is not JSON, without the choices/message/content structure or
\* with content holding no JSON object; without a credential or an endpoint
\* it returns the heuristic Decision and makes no network call.
C4_advise_falls_back ==
    advice # <<>> =>
        LET a == advice[1]
        IN  /\ (NoCredential(a.env) \/ NoEndpoint(a.env)) =>
                    ~a.called /\ a.result = _heuristic_decision(a.feature)
            /\ (a.called /\ a.reply[1] \in FailedReplies) =>
                    a.result = _heuristic_decision(a.feature)

\* the service answers 500 with a well-formed answer in the body, and advise
\* returns the heuristic Decision of a numeric entry
C4_error_status_falls_back ==
    /\ advice # <<>>
    /\ advice[1].called
    /\ advice[1].reply = Some(ReplyServerError)
    /\ "type" \in DOMAIN advice[1].feature
    /\ advice[1].feature["type"] = "numeric"
    /\ advice[1].result["imputation"] \in {"mean", "median"}

Imputations == {"mean", "median", "knn", "drop", "leave", "most_frequent"}
Encodings == {"onehot", "frequency", "target", "cyclical", "none", PyNone}
Scalings == {"standard", "minmax", "none", PyNone}
Conforms(d) ==
    /\ {"imputation", "encoding", "scaling", "reason"} \subseteq DOMAIN d
    /\ d["imputation"] \in Imputations
    /\ d["encoding"] \in Encodings
    /\ d["scaling"] \in Scalings

\* C5: every Decision advise returns has the four fields, with imputation,
\* encoding and scaling in their sets of allowed values; an answer with
\* values outside these sets is replaced by the heuristic Decision.
C5_decision_conforms ==
    advice # <<>> => Conforms(advice[1].result)

\* C6: fit_transform leaves the configuration of the preprocessor as the
\* constructor set it, so a call does not change what a later call returns.
C6_configuration_unchanged == self = ctor

\* C7: the types recomputed on the processed table contain no 'id' entry.
C7_no_identifier_after ==
    pc = "done" => \A k \in DOMAIN after_types : after_types[k][2] # "id"

\* C8: a column of the input is in decisions['drops'] if and only if its
\* inferred type is identifier, or it has at most one distinct non-missing
\* value, or its missing rate is strictly greater than
\* high_missing_threshold.
C8_drop_rules ==
    pc \in {"loop", "done"} =>
        \A k \in DOMAIN input :
            LET col == input[k]
                present == {r \in DOMAIN col.cells : col.cells[r] # NA}
                distinct == {col.cells[r][1] : r \in present}
                missing == Len(col.cells) - Cardinality(present)
            IN  col.name \in Drops <=>
                    \/ infer_type(col) = "id"
                    \/ Cardinality(distinct) <= 1
                    \/ 100 * missing > self.high_missing_threshold * Len(col.cells)

\* a column whose missing rate equals the threshold is retained while another
\* column of the table is dropped
C8_at_threshold_retained ==
    /\ pc = "loop"
    /\ \E k \in DOMAIN input :
           /\ 100 * NaCount(input[k].cells) = self.high_missing_threshold * Len(input[k].cells)
           /\ input[k].name \notin Drops
    /\ Drops # {}

\* C9: a retained column whose Decision has imputation = 'drop' contributes
\* no column to the processed table, whatever its type, and its Decision is
\* recorded in decisions['features'] like that of every retained column.
C9_decision_drop ==
    pc \in {"loop", "done"} =>
        \A k \in 1..(i - 1) :
            df[k].name # self.target_column =>
                /\ df[k].name \in Features
                /\ DecisionOf(df[k].name)["imputation"] = "drop" =>
                       /\ Produced(df[k].name) = {}
                       /\ \A c \in DOMAIN processed : processed[c].src # df[k].name

\* a numeric column with Decision 'drop' beside a column that is processed
C9_numeric_drop_recorded ==
    /\ pc = "done"
    /\ processed # <<>>
    /\ \E k \in DOMAIN df :
           /\ DictVal(types, df[k].name) = "numeric"
           /\ df[k].name \in Features
           /\ DecisionOf(df[k].name)["imputation"] = "drop"

\* the datetime columns among the retained non-target columns, by position
DatetimeColumns ==
    {k \in DOMAIN df : df[k].name # self.target_column /\ DictVal(types, df[k].name) = "datetime"}
\* those whose Decision does not say 'drop'
KeptDatetimeColumns ==
    {k \in DatetimeColumns : DecisionOf(df[k].name)["imputation"] # "drop"}
DerivedNames == {"year", "month", "day", "day_of_week", "is_weekend"}
PartDayNames == {"part_day_morning", "part_day_afternoon", "part_day_evening"}

\* C10: only the first datetime column in table order among the retained
\* non-target columns whose Decision's imputation is not 'drop' produces the
\* derived features; every other datetime column contributes no output column.
C10_first_kept_datetime_only ==
    pc = "done" =>
        \A k \in DatetimeColumns :
            IF KeptDatetimeColumns # {} /\ k = First(KeptDatetimeColumns)
            THEN /\ DerivedNames \subseteq Produced(df[k].name)
                 /\ Produced(df[k].name) \subseteq DerivedNames \cup PartDayNames
            ELSE Produced(df[k].name) = {}

\* two datetime columns: the Decision of the first says 'drop' and the second
\* produces the derived features
C10_second_datetime_after_drop ==
    /\ pc = "done"
    /\ Cardinality(DatetimeColumns) = 2
    /\ First(DatetimeColumns) \notin KeptDatetimeColumns
    /\ KeptDatetimeColumns # {}
    /\ DerivedNames \subseteq Produced(df[First(KeptDatetimeColumns)].name)

\* C10 as stated: every datetime column after the first datetime column
\* encountered contributes no output column, also when the Decision of the
\* first has imputation = 'drop'.
C10_first_datetime_only ==
    pc = "done" /\ DatetimeColumns # {} =>
        \A k \in DatetimeColumns :
            k # First(DatetimeColumns) => Produced(df[k].name) = {}

\* C11: whenever a datetime column produces features, the column
\* 'is_weekend' of the returned table comes from that datetime column, is 1
\* exactly for the rows whose imputed timestamp is a Saturday or a Sunday and
\* 0 otherwise, and is not scaled: every value is 0 or 1.
C11_is_weekend_binary ==
    pc = "done" /\ KeptDatetimeColumns # {} =>
        LET col == df[First(KeptDatetimeColumns)]
            parsed == ToDatetime(col)
            fill == IF NotNa(parsed) # <<>> THEN MostFrequent(Values(parsed), "ts")
                    ELSE CHOOSE now \in NowChoices : TRUE
            stamp(r) == IF IsNA(parsed[r]) THEN fill ELSE parsed[r][1]
        IN  \E c \in DOMAIN processed :
                /\ processed[c].name = "is_weekend"
                /\ processed[c].scaler = "none"
                /\ \A r \in DOMAIN processed[c].cells :
                       processed[c].cells[r] =
                           Some(IF DayOfWeek(stamp(r)) \in {5, 6} THEN <<1, 1>> ELSE <<0, 1>>)

\* some value of the column carries a time of day: a string with an HH:MM
\* part, or a timestamp that is not at midnight
CarriesTime(col) ==
    \E r \in DOMAIN col.cells :
        /\ ~IsNA(col.cells[r])
        /\ IF col.dtype = "M"
           THEN col.cells[r][1].hour # 0 \/ col.cells[r][1].minute # 0
           ELSE ParseDatetime(col.cells[r][1]) # <<>> /\ Len(col.cells[r][1]) > 10

\* C12: the three part_day columns are added exactly when a parsed timestamp
\* of the feature-producing datetime column carries an hour component, all
\* three together; a column of dates without time information gets none.
C12_part_day_iff_time ==
    pc = "done" /\ KeptDatetimeColumns # {} =>
        LET col == df[First(KeptDatetimeColumns)]
        IN  IF CarriesTime(col)
            THEN PartDayNames \subseteq Produced(col.name)
            ELSE PartDayNames \cap Produced(col.name) = {}

\* C13: the imputation and encoding of the heuristic Decision follow the
\* table: numeric -> median when missing_rate > 0.2, whatever the skew,
\* otherwise mean when |skew| < 1.0 and median if not, encoding none;
\* categorical -> most_frequent, onehot up to cardinality 20 and frequency
\* from 21; datetime -> drop when missing_rate > 0.3 else leave, encoding
\* cyclical; any other or missing type -> leave, encoding none.
C13_heuristic_table ==
    advice # <<>> /\ ~advice[1].called =>
        LET f == advice[1].feature
            d == advice[1].result
            type == IF "type" \in DOMAIN f THEN f["type"] ELSE PyNone
            missing == IF "missing_rate" \in DOMAIN f THEN f["missing_rate"] ELSE <<0, 1>>
            skew == IF "skew" \in DOMAIN f THEN f["skew"] ELSE SkewOf(0, 0, 1)
            cardinality == IF "cardinality" \in DOMAIN f THEN f["cardinality"] ELSE 0
            skewBelowOne == ~skew.nan /\ skew.sq[1] < skew.sq[2]
        IN  IF type = "numeric" THEN
                /\ d["imputation"] = IF 5 * missing[1] > missing[2] THEN "median"
                                     ELSE IF skewBelowOne THEN "mean" ELSE "median"
                /\ d["encoding"] = PyNone
            ELSE IF type = "categorical" THEN
                /\ d["imputation"] = "most_frequent"
                /\ d["encoding"] = IF cardinality <= 20 THEN "onehot" ELSE "frequency"
            ELSE IF type = "datetime" THEN
                /\ d["imputation"] = IF 10 * missing[1] > 3 * missing[2] THEN "drop" ELSE "leave"
                /\ d["encoding"] = "cyclical"
            ELSE
                /\ d["imputation"] = "leave"
                /\ d["encoding"] = PyNone

\* the entry {numeric, missing_rate 0.5, skew 0.1} gets median
C13_missing_before_skew ==
    /\ advice # <<>>
    /\ ~advice[1].called
    /\ advice[1].feature = Entry("numeric", <<1, 2>>, SkewOf(1, 1, 100), 4)
    /\ advice[1].result["imputation"] = "median"

\* C14: for a numeric entry the scaling of the heuristic Decision is
\* 'standard' if |skew| < 0.5 and 'minmax' otherwise, whatever the
\* missing_rate.
C14_heuristic_scaling ==
    advice # <<>> /\ ~advice[1].called =>
        LET f == advice[1].feature
            skew == IF "skew" \in DOMAIN f THEN f["skew"] ELSE SkewOf(0, 0, 1)
            skewBelowHalf == ~skew.nan /\ 4 * skew.sq[1] < skew.sq[2]
        IN  ("type" \in DOMAIN f /\ f["type"] = "numeric") =>
                advice[1].result["scaling"] = IF skewBelowHalf THEN "standard" ELSE "minmax"

(***************************************************************************)
(* fit_transform on tables of categorical columns: WideRows rows, so that  *)
(* a column can hold 21 distinct values without being typed identifier.    *)
(***************************************************************************)
WideRows == 24
FillN(n, m, vals) ==
    [r \in 1..n |-> IF r <= m THEN NA ELSE Some(vals[((r - m - 1) % Len(vals)) + 1])]
\* the k-th category: "ca", "cb", ...
Code(k) == "c" \o SubSeq(LowerAlpha, k, k)

EncodeCatalog ==
    << Column("zip", "O", FillN(WideRows, 0, [k \in 1..21 |-> Code(k)])),
       Column("city", "O", FillN(WideRows, 1, <<"x", "w", "v">>)),
       Column("y", "f", [r \in 1..WideRows |->
                            Some(IF r <= WideRows \div 3 THEN 0
                                 ELSE IF r > WideRows - WideRows \div 3 THEN 2 ELSE 1)]),
       Column("y", "O", FillN(WideRows, 0, <<"no", "yes">>)) >>
\* the tables: a categorical column alone, or before or after a column "y"
EncodeTableChoices ==
    LET categorical == {k \in DOMAIN EncodeCatalog : EncodeCatalog[k].name # "y"}
        target == {k \in DOMAIN EncodeCatalog : EncodeCatalog[k].name = "y"}
    IN  {<<c>> : c \in categorical}
            \cup {<<c, t>> : c \in categorical, t \in target}
            \cup {<<t, c>> : c \in categorical, t \in target}
EncodeTableOf(p) == [k \in DOMAIN p |-> EncodeCatalog[p[k]]]

EncodeConfigs ==
    [target_column : {PyNone, "y"},
     low_card_threshold : {2, 10},
     high_missing_threshold : {30},
     apply_outlier_treatment : {TRUE},
     scaling_enabled : {TRUE},
     scaling_method : {PyNone},
     llm_model : {PyNone}]

ReplyOnehot ==
    Response(200, Content(Some(JsonDict([imputation |-> "most_frequent", encoding |-> "onehot"])), <<>>))
ReplyFrequency ==
    Response(200, Content(Some(JsonDict([imputation |-> "most_frequent", encoding |-> "frequency"])), <<>>))
ReplyEmptyEncoding ==
    Response(200, Content(Some(JsonDict([imputation |-> "most_frequent", encoding |-> ""])), <<>>))
EncodeReplies ==
    {ReplyEmptyObject, ReplyMeanTarget, ReplyOutOfSchema,
     ReplyOnehot, ReplyFrequency, ReplyEmptyEncoding}

InitEncode ==
    /\ ctor \in EncodeConfigs
    /\ self = ctor
    /\ pc = "idle"
    /\ input = <<>>
    /\ error = ""
    /\ NoLocals

EncodeCall ==
    /\ pc = "idle"
    /\ \E p \in EncodeTableChoices : FitTransformBegin(EncodeTableOf(p))

EncodeStep ==
    /\ pc = "loop"
    /\ \E env \in RunEnvs, reply \in EncodeReplies \cup {NoExchange}, now \in NowChoices :
          ProcessColumn(env, reply, now)

NextEncode ==
    \/ EncodeCall
    \/ EncodeStep
    \/ FitTransformReturn
    \/ CallerContinues

SpecEncode == InitEncode /\ [][NextEncode]_vars

\* the retained categorical columns the loop has processed and not skipped
EncodedColumns ==
    {k \in 1..(i - 1) :
        /\ df[k].name # self.target_column
        /\ DictVal(types, df[k].name) = "categorical"
        /\ DecisionOf(df[k].name)["imputation"] # "drop"}
DistinctValues(col) == {col.cells[r][1] : r \in {q \in DOMAIN col.cells : col.cells[q] # NA}}
NumericTarget == y # None /\ y[1].dtype = "f"
\* the output of the column: role is the encoder that made it
OutputsOf(name) == {processed[c] : c \in {q \in DOMAIN processed : processed[q].src = name}}
EncodedAs(col, enc) ==
    /\ \A o \in OutputsOf(col.name) : o.role = enc
    /\ IF enc = "onehot"
       THEN {o.name : o \in OutputsOf(col.name)} =
                {col.name \o "__" \o v : v \in DistinctValues(col)}
       ELSE {o.name : o \in OutputsOf(col.name)} = {col.name}

\* C15: the encoding applied to a retained categorical column is the
\* Decision's when it is onehot or frequency; target-mean only when the
\* Decision says target and a numeric target column is present, otherwise
\* frequency; when the Decision's encoding is null or empty, onehot if the
\* number of distinct values is at most low_card_threshold, else
\* frequency; every other value gives frequency.
C15_encoding_applied ==
    pc \in {"loop", "done"} =>
        \A k \in EncodedColumns :
            LET col == df[k]
                enc == DecisionOf(col.name)["encoding"]
            IN  EncodedAs(col,
                    IF enc \in {"onehot", "frequency"} THEN enc
                    ELSE IF enc = "target"
                    THEN (IF NumericTarget THEN "target" ELSE "frequency")
                    ELSE IF enc \in {PyNone, ""}
                    THEN (IF Cardinality(DistinctValues(col)) <= self.low_card_threshold
                          THEN "onehot" ELSE "frequency")
                    ELSE "frequency")

\* under the heuristic advisor and low_card_threshold 10 the column of 21
\* distinct values is frequency-encoded into the single column "zip"
C15_21_values_frequency ==
    /\ pc = "done"
    /\ self.low_card_threshold = 10
    /\ \E k \in EncodedColumns :
           /\ Cardinality(DistinctValues(df[k])) = 21
           /\ DecisionOf(df[k].name) = _heuristic_decision(StatsEntry(before, df[k].name))
           /\ {o.name : o \in OutputsOf(df[k].name)} = {df[k].name}
           /\ \A o \in OutputsOf(df[k].name) : o.role = "frequency"

\* C15 as stated: only a null encoding takes the default; every other value
\* than onehot, frequency and target, the empty string included, gives
\* frequency.
C15_other_values_frequency ==
    pc \in {"loop", "done"} =>
        \A k \in EncodedColumns :
            LET col == df[k]
                enc == DecisionOf(col.name)["encoding"]
            IN  EncodedAs(col,
                    IF enc \in {"onehot", "frequency"} THEN enc
                    ELSE IF enc = "target"
                    THEN (IF NumericTarget THEN "target" ELSE "frequency")
                    ELSE IF enc = PyNone
                    THEN (IF Cardinality(DistinctValues(col)) <= self.low_card_threshold
                          THEN "onehot" ELSE "frequency")
                    ELSE "frequency")

(***************************************************************************)
(* OutlierCapper(method='iqr') on its own: fit on one series, transform of *)
(* the same series (fit_transform) or of another one.                      *)
(***************************************************************************)
MaxFit == 3
Rats(xs) == [k \in DOMAIN xs |-> <<xs[k], 1>>]
CapValues == {<<-4, 1>>, <<1, 2>>, <<7, 1>>}
SpecExample == Rats(<<1, 2, 3, 4, 5, 100>>)
FitChoices == {SpecExample} \cup UNION {[1..n -> CapValues] : n \in 1..MaxFit}
TransformChoices(fit) ==
    {fit} \cup {<<v>> : v \in CapValues \cup {<<-100, 1>>, <<100, 1>>}}

InitCapper ==
    /\ ctor \in {c \in Configs : c.target_column = PyNone /\ c.high_missing_threshold = 30}
    /\ self = ctor
    /\ pc = "capper"
    /\ input = <<>>
    /\ error = ""
    /\ NoLocals

\* capper = OutlierCapper(method='iqr'); capper.fit(fit); capper.transform(X)
CapperCall(fit, X) ==
    /\ pc = "capper"
    /\ \E params_ \in {OutlierCapper_fit(fit)} :
           advice' = Some([fit |-> fit, X |-> X, params_ |-> params_,
                           out |-> OutlierCapper_transform(params_, X)])
    /\ UNCHANGED <<ctor, self, pc, input, df, types, before, decisions, y, processed,
                   datetime_features_created, i, after_types, written, error>>

NextCapper ==
    \E fit \in FitChoices : \E X \in TransformChoices(fit) : CapperCall(fit, X)

SpecCapper == InitCapper /\ [][NextCapper]_vars

RatLeq(a, b) == a[1] * b[2] <= b[1] * a[2]

\* C16: transform maps every value v to min(max(v, low), high) with
\* low = Q1 - 1.5*IQR and high = Q3 + 1.5*IQR of the fit data: a value
\* strictly inside the bounds is unchanged, a value below is low, a value
\* above is high, every output lies within the bounds; fit on
\* [1,2,3,4,5,100] gives the bounds -1.5 and 8.5, clips 100 to 8.5 and leaves
\* 1..5 unchanged.
C16_iqr_clip ==
    advice # <<>> /\ pc = "capper" =>
        LET a == advice[1]
            low == a.params_.low
            high == a.params_.high
        IN  /\ RatLeq(low, high)
            /\ DOMAIN a.out = DOMAIN a.X
            /\ \A k \in DOMAIN a.X :
                   /\ RatLeq(low, a.out[k]) /\ RatLeq(a.out[k], high)
                   /\ RatLess(a.X[k], low) => a.out[k] = low
                   /\ RatLess(high, a.X[k]) => a.out[k] = high
                   /\ (RatLeq(low, a.X[k]) /\ RatLeq(a.X[k], high)) => a.out[k] = a.X[k]
            /\ a.fit = SpecExample =>
                   /\ low = <<-3, 2>> /\ high = <<17, 2>>
                   /\ a.X = SpecExample =>
                          a.out = <<<<1, 1>>, <<2, 1>>, <<3, 1>>, <<4, 1>>, <<5, 1>>, <<17, 2>>>>

\* fit and transform on [1,2,3,4,5,100]: 100 becomes 8.5
C16_example_clipped ==
    /\ advice # <<>> /\ pc = "capper"
    /\ advice[1].fit = SpecExample
    /\ advice[1].X = SpecExample
    /\ advice[1].out[6] = <<17, 2>>
    /\ advice[1].out[5] = <<5, 1>>

\* the names of the columns that survived the drop pass, in table order,
\* without the column called target
RetainedWithout(target) ==
    SelectSeq([k \in DOMAIN df |-> df[k].name], LAMBDA n : n # target)

\* C17: at the end of every run the keys of decisions['features'] are the
\* columns that survived the drop pass minus the target column, one Decision
\* each, in table order; the target column the preprocessor was constructed
\* with has no Decision and is no column of the processed table.
C17_one_decision_per_column ==
    pc = "done" =>
        /\ [k \in DOMAIN decisions.features |-> decisions.features[k][1]]
               = RetainedWithout(ctor.target_column)
        /\ ctor.target_column \notin Features
        /\ \A c \in DOMAIN processed :
               processed[c].name # ctor.target_column /\ processed[c].src # ctor.target_column

====
